---- MODULE Spec2Model ----
(***************************************************************************)
(* Model of permgroup/core_py.py: the validation and construction of the   *)
(* array map of a permutation given as a list of tuples (cycles).          *)
(*                                                                         *)
(* A client takes one Python value `action` and calls, in this order,      *)
(*   _verify_tuples_, _has_unique_points_, _get_max_support_,              *)
(*   _get_degree_, _is_identity_action_, _make_map_                        *)
(* the last five only when _verify_tuples_ returned True (their documented *)
(* input is "a (verified) list of tuples").  The two loops the claims      *)
(* speak about step by step (_has_unique_points_, _make_map_) advance one  *)
(* loop iteration per action; the other functions are single steps.        *)
(***************************************************************************)
EXTENDS Integers, Sequences, FiniteSets

(* ------------------------------ bounds --------------------------------- *)
\* greatest point of a well-formed input action
MaxPoint == 4
\* greatest total number of points of a well-formed input action
MaxTotal == 3
\* greatest number of cycles (items of the outer list) of an input
MaxCycles == 2
\* greatest total number of points of an arbitrary (possibly ill-formed) input
MaxAnyTotal == 2

(* --------------------------- Python values ----------------------------- *)
\* A Python value: its class, its numeric value (numbers only) and its
\* items (list and tuple only).
PyInt(n)   == [kind |-> "int",   val |-> n, items |-> <<>>]
PyLong(n)  == [kind |-> "long",  val |-> n, items |-> <<>>]
PyBool(n)  == [kind |-> "bool",  val |-> n, items |-> <<>>]
PyFloat(n) == [kind |-> "float", val |-> n, items |-> <<>>]
PyStr      == [kind |-> "str",   val |-> 0, items |-> <<>>]
PyNone     == [kind |-> "none",  val |-> 0, items |-> <<>>]
PyTuple(s) == [kind |-> "tuple", val |-> 0, items |-> s]
PyList(s)  == [kind |-> "list",  val |-> 0, items |-> s]

\* isinstance(v, classes): bool is a subclass of int.
IsInstance(v, classes) ==
    \/ v.kind \in classes
    \/ v.kind = "bool" /\ "int" \in classes

\* len(v) and v[idx] with a 0-based index idx
PyLen(v) == Len(v.items)
PyGet(v, idx) == v.items[idx + 1]

(* ----------------------------- variables ------------------------------- *)
VARIABLES
    action,      \* the input value, never mutated
    pc,          \* the call in progress / the outcome
    r_verify,    \* result of _verify_tuples_: "unset", "True", "False"
    r_unique,    \* result of _has_unique_points_: "unset", "True", "False"
    r_max,       \* result of _get_max_support_ (-1: not yet called)
    r_degree,    \* result of _get_degree_ (-1: not yet called)
    r_identity,  \* result of _is_identity_action_: "unset", "True", "False"
    S,           \* _has_unique_points_: the set of seen points
    uc,          \* _has_unique_points_: 0-based index of the cycle scanned
    up,          \* _has_unique_points_: 0-based index of the next point in it
    max_support, \* _make_map_: local max_support
    L,           \* _make_map_: the list L, a function on 0..len(L)-1
    mc,          \* _make_map_: 0-based index of the cycle t in the outer loop
    i,           \* _make_map_: the inner loop variable i
    err          \* exception raised by _make_map_: "none", "IndexError",
                 \* "ZeroDivisionError"

vars == <<action, pc, r_verify, r_unique, r_max, r_degree, r_identity,
          S, uc, up, max_support, L, mc, i, err>>

(* --------------------------- pure functions ---------------------------- *)
\* _verify_tuples_
VerifyTuplesZeroOk(a) ==
    IF ~IsInstance(a, {"list"}) THEN FALSE
    ELSE IF PyLen(a) = 0 THEN FALSE
    ELSE IF ~(\A c \in 1..PyLen(a) : IsInstance(a.items[c], {"tuple"})) THEN FALSE
    ELSE IF \E c \in 1..PyLen(a) :
              ~(\A p \in 1..PyLen(a.items[c]) :
                   /\ IsInstance(a.items[c].items[p], {"int", "long"})
                   /\ a.items[c].items[p].val >= 0)
         THEN FALSE
    ELSE TRUE

VerifyTuples(a) ==
    IF ~IsInstance(a, {"list"}) THEN FALSE
    ELSE IF PyLen(a) = 0 THEN FALSE
    ELSE IF ~(\A c \in 1..PyLen(a) : IsInstance(a.items[c], {"tuple"})) THEN FALSE
    ELSE IF \E c \in 1..PyLen(a) :
              ~(\A p \in 1..PyLen(a.items[c]) :
                   /\ IsInstance(a.items[c].items[p], {"int", "long"})
                   /\ a.items[c].items[p].val > 0)
         THEN FALSE
    ELSE TRUE

\* the points of a verified action in scan order (for t in action: for pnt in t)
RECURSIVE ScanFrom(_, _)
ScanFrom(a, c) ==
    IF c > PyLen(a) THEN <<>>
    ELSE [p \in 1..PyLen(a.items[c]) |-> a.items[c].items[p].val] \o ScanFrom(a, c + 1)
Scan(a) == ScanFrom(a, 1)

\* _get_max_support_: m = 0; for each pnt in scan order: if pnt > m: m = pnt
RECURSIVE MaxLoop(_, _, _)
MaxLoop(s, n, m) ==
    IF n > Len(s) THEN m
    ELSE MaxLoop(s, n + 1, IF s[n] > m THEN s[n] ELSE m)
GetMaxSupportFirstOnly(a) == IF Len(Scan(a)) = 0 THEN 0 ELSE Scan(a)[1]
GetMaxSupport(a) == MaxLoop(Scan(a), 1, 0)

\* _get_degree_: degree = 0; for each pnt in scan order: degree += 1
RECURSIVE DegreeLoop(_, _, _)
DegreeLoop(s, n, degree) ==
    IF n > Len(s) THEN degree ELSE DegreeLoop(s, n + 1, degree + 1)
GetDegreeDistinct(a) == Cardinality({Scan(a)[n] : n \in 1..Len(Scan(a))})
GetDegree(a) == DegreeLoop(Scan(a), 1, 0)

\* _is_identity_action_
IsIdentityAction(a) == IF GetMaxSupport(a) = 0 THEN TRUE ELSE FALSE

\* range(n) as a list: index j holds j.  A list that is assigned by index
\* is a function on 0..len-1.
RangeListZeros(n) == [j \in 0..(n - 1) |-> 0]
RangeList(n) == [j \in 0..(n - 1) |-> j]
ListLen(l) == Cardinality(DOMAIN l)

\* Index of a Python list of length n addressed by idx (negative indices
\* count from the end); the access raises IndexError when the result is
\* outside 0..n-1.
PyIndex(n, idx) == IF idx >= 0 THEN idx ELSE n + idx
PyIndexOk(n, idx) == PyIndex(n, idx) \in 0..(n - 1)

BoolStr(b) == IF b THEN "True" ELSE "False"

(* ------------------------------- Init ---------------------------------- *)
SeqsUpTo(X, n) == UNION {[1..k -> X] : k \in 0..n}
\* the ways to cut a sequence of length n into k consecutive pieces
Cuts(n, k) == {c \in [1..(k - 1) -> 0..n] : \A j \in 1..(k - 2) : c[j] <= c[j + 1]}
Split(flat, c, k) ==
    [j \in 1..k |->
        PyTuple(SubSeq(flat, (IF j = 1 THEN 0 ELSE c[j - 1]) + 1,
                             IF j = k THEN Len(flat) ELSE c[j]))]

ValidPoints == {PyInt(n) : n \in 1..MaxPoint}
AnyPoints == {PyInt(-1), PyInt(0), PyInt(1), PyLong(2), PyBool(1), PyBool(0),
              PyFloat(1), PyStr}
NonTuples == {PyList(<<PyInt(1), PyInt(2)>>), PyInt(1)}

Init ==
    /\ \/ \E n \in 0..MaxTotal, kk \in 1..MaxCycles :
            \E f \in [1..n -> ValidPoints], cc \in Cuts(n, kk) :
               \* a list of tuples of positive ints
               action = PyList(Split(f, cc, kk))
       \/ \E n \in 0..MaxAnyTotal, kk \in 1..MaxCycles :
            \E f \in [1..n -> AnyPoints], cc \in Cuts(n, kk) :
               \* a list or a tuple of tuples of arbitrary points, one item
               \* possibly replaced by a value that is no tuple
               \E j \in 0..kk, nt \in NonTuples, outer \in {"list", "tuple"} :
                  LET s  == Split(f, cc, kk)
                      s2 == IF j = 0 THEN s ELSE [s EXCEPT ![j] = nt]
                  IN  action = IF outer = "list" THEN PyList(s2) ELSE PyTuple(s2)
       \/ action \in {PyList(<<>>), PyNone, PyInt(1)}
    /\ pc = "verify"
    /\ r_verify = "unset"
    /\ r_unique = "unset"
    /\ r_max = -1
    /\ r_degree = -1
    /\ r_identity = "unset"
    /\ S = {}
    /\ uc = 0
    /\ up = 0
    /\ max_support = 0
    /\ L = RangeList(0)
    /\ mc = 0
    /\ i = 0
    /\ err = "none"

(* ------------------------------ actions -------------------------------- *)
\* The client calls _verify_tuples_(action) and stops when it returns False.
CallVerifyTuples ==
    /\ pc = "verify"
    /\ r_verify' = BoolStr(VerifyTuples(action))
    /\ pc' = IF VerifyTuples(action) THEN "unique" ELSE "rejected"
    /\ UNCHANGED <<action, r_unique, r_max, r_degree, r_identity,
                   S, uc, up, max_support, L, mc, i, err>>

\* _has_unique_points_, inner loop body: `if pnt in S: return False`,
\* `else: S.add(pnt)`.
UniqueVisit ==
    /\ pc = "unique"
    /\ uc < PyLen(action)
    /\ up < PyLen(PyGet(action, uc))
    /\ LET pnt == PyGet(PyGet(action, uc), up).val IN
         IF pnt \in S
         THEN /\ r_unique' = "False"
              /\ pc' = "max"
              /\ UNCHANGED <<S, up>>
         ELSE /\ S' = S \cup {pnt}
              /\ up' = up + 1
              /\ UNCHANGED <<r_unique, pc>>
    /\ UNCHANGED <<action, r_verify, r_max, r_degree, r_identity,
                   uc, max_support, L, mc, i, err>>

\* _has_unique_points_: the inner loop is exhausted, the outer loop takes the
\* next tuple.
UniqueNextCycleForgetful ==
    /\ pc = "unique"
    /\ uc < PyLen(action)
    /\ up >= PyLen(PyGet(action, uc))
    /\ uc' = uc + 1
    /\ up' = 0
    /\ S' = {}
    /\ UNCHANGED <<action, pc, r_verify, r_unique, r_max, r_degree, r_identity,
                   max_support, L, mc, i, err>>

UniqueNextCycle ==
    /\ pc = "unique"
    /\ uc < PyLen(action)
    /\ up >= PyLen(PyGet(action, uc))
    /\ uc' = uc + 1
    /\ up' = 0
    /\ UNCHANGED <<action, pc, r_verify, r_unique, r_max, r_degree, r_identity,
                   S, max_support, L, mc, i, err>>

\* _has_unique_points_: the outer loop is exhausted, `return True`.
UniqueReturnTrue ==
    /\ pc = "unique"
    /\ uc >= PyLen(action)
    /\ r_unique' = "True"
    /\ pc' = "max"
    /\ UNCHANGED <<action, r_verify, r_max, r_degree, r_identity,
                   S, uc, up, max_support, L, mc, i, err>>

CallGetMaxSupport ==
    /\ pc = "max"
    /\ r_max' = GetMaxSupport(action)
    /\ pc' = "degree"
    /\ UNCHANGED <<action, r_verify, r_unique, r_degree, r_identity,
                   S, uc, up, max_support, L, mc, i, err>>

CallGetDegree ==
    /\ pc = "degree"
    /\ r_degree' = GetDegree(action)
    /\ pc' = "identity"
    /\ UNCHANGED <<action, r_verify, r_unique, r_max, r_identity,
                   S, uc, up, max_support, L, mc, i, err>>

CallIsIdentityAction ==
    /\ pc = "identity"
    /\ r_identity' = BoolStr(IsIdentityAction(action))
    /\ pc' = "map"
    /\ UNCHANGED <<action, r_verify, r_unique, r_max, r_degree,
                   S, uc, up, max_support, L, mc, i, err>>

\* _make_map_: `if _is_identity_action_(action): return [0]`
MapIdentity ==
    /\ pc = "map"
    /\ IsIdentityAction(action)
    /\ L' = [j \in {0} |-> 0]
    /\ pc' = "done"
    /\ UNCHANGED <<action, r_verify, r_unique, r_max, r_degree, r_identity,
                   S, uc, up, max_support, mc, i, err>>

\* _make_map_: max_support = ...; L = range(max_support + 1); L[0] = max_support
MapAllocZeroSlot ==
    /\ pc = "map"
    /\ ~IsIdentityAction(action)
    /\ max_support' = GetMaxSupport(action)
    /\ L' = RangeList(GetMaxSupport(action) + 1)
    /\ mc' = 0
    /\ i' = 0
    /\ pc' = "map_loop"
    /\ UNCHANGED <<action, r_verify, r_unique, r_max, r_degree, r_identity,
                   S, uc, up, err>>

MapAlloc ==
    /\ pc = "map"
    /\ ~IsIdentityAction(action)
    /\ max_support' = GetMaxSupport(action)
    /\ L' = [RangeList(GetMaxSupport(action) + 1) EXCEPT ![0] = GetMaxSupport(action)]
    /\ mc' = 0
    /\ i' = 0
    /\ pc' = "map_loop"
    /\ UNCHANGED <<action, r_verify, r_unique, r_max, r_degree, r_identity,
                   S, uc, up, err>>

\* _make_map_, inner loop body with the given source index into t.
\* L[t[i]] = t[src]; an index outside the list raises IndexError.
MapStore(t, src) ==
    IF ~PyIndexOk(PyLen(t), src) \/ ~PyIndexOk(ListLen(L), PyGet(t, i).val)
    THEN /\ err' = "IndexError"
         /\ pc' = "raised"
         /\ UNCHANGED <<L, i>>
    ELSE /\ L' = [L EXCEPT ![PyIndex(ListLen(L), PyGet(t, i).val)] =
                                PyGet(t, PyIndex(PyLen(t), src)).val]
         /\ i' = i + 1
         /\ UNCHANGED <<err, pc>>

\* _make_map_, inner loop body: L[t[i]] = t[(i + 1) % len(t)]
MapAssignNoWrap ==
    /\ pc = "map_loop"
    /\ mc < PyLen(action)
    /\ i < PyLen(PyGet(action, mc))
    /\ LET t == PyGet(action, mc) IN
         MapStore(t, IF i + 1 < PyLen(t) THEN i + 1 ELSE i)
    /\ UNCHANGED <<action, r_verify, r_unique, r_max, r_degree, r_identity,
                   S, uc, up, max_support, mc>>

MapAssignInverse ==
    /\ pc = "map_loop"
    /\ mc < PyLen(action)
    /\ i < PyLen(PyGet(action, mc))
    /\ LET t == PyGet(action, mc) IN
         MapStore(t, (i - 1) % PyLen(t))
    /\ UNCHANGED <<action, r_verify, r_unique, r_max, r_degree, r_identity,
                   S, uc, up, max_support, mc>>

MapAssign ==
    /\ pc = "map_loop"
    /\ mc < PyLen(action)
    /\ i < PyLen(PyGet(action, mc))
    /\ LET t == PyGet(action, mc) IN
         IF PyLen(t) = 0
         THEN /\ err' = "ZeroDivisionError"
              /\ pc' = "raised"
              /\ UNCHANGED <<L, i>>
         ELSE MapStore(t, (i + 1) % PyLen(t))
    /\ UNCHANGED <<action, r_verify, r_unique, r_max, r_degree, r_identity,
                   S, uc, up, max_support, mc>>

\* _make_map_: range(len(t)) is exhausted, the outer loop takes the next tuple.
MapNextCycle ==
    /\ pc = "map_loop"
    /\ mc < PyLen(action)
    /\ i >= PyLen(PyGet(action, mc))
    /\ mc' = mc + 1
    /\ i' = 0
    /\ UNCHANGED <<action, pc, r_verify, r_unique, r_max, r_degree, r_identity,
                   S, uc, up, max_support, L, err>>

\* _make_map_: the outer loop is exhausted, `return L`.
MapReturn ==
    /\ pc = "map_loop"
    /\ mc >= PyLen(action)
    /\ pc' = "done"
    /\ UNCHANGED <<action, r_verify, r_unique, r_max, r_degree, r_identity,
                   S, uc, up, max_support, L, mc, i, err>>

Next ==
    \/ CallVerifyTuples
    \/ UniqueVisit
    \/ UniqueNextCycle
    \/ UniqueReturnTrue
    \/ CallGetMaxSupport
    \/ CallGetDegree
    \/ CallIsIdentityAction
    \/ MapIdentity
    \/ MapAlloc
    \/ MapAssign
    \/ MapNextCycle
    \/ MapReturn

Spec == Init /\ [][Next]_vars

(* ------------------- vocabulary of the properties ---------------------- *)
\* These describe the input declaratively; none of them is used by the
\* actions above.  They are meaningful when action is a list of tuples of
\* numbers, which every property below establishes through r_verify first.
NCycles == PyLen(action)
CycleLen(c) == PyLen(PyGet(action, c))
Point(c, n) == PyGet(PyGet(action, c), n).val
Positions == UNION {{<<c, n>> : n \in 0..(CycleLen(c) - 1)} : c \in 0..(NCycles - 1)}
Before(p, q) == p[1] < q[1] \/ (p[1] = q[1] /\ p[2] < q[2])
Support == {Point(p[1], p[2]) : p \in Positions}
MaxOf(X) == IF X = {} THEN 0 ELSE CHOOSE x \in X : \A y \in X : y <= x
Passed == r_verify = "True" /\ r_unique = "True"
Returned == pc = "done" /\ Passed

\* applying the list l to x, n times: x := l[x]
RECURSIVE Iter(_, _, _)
Iter(l, x, n) ==
    IF n = 0 THEN x
    ELSE IF x \notin DOMAIN l THEN -1
    ELSE Iter(l, l[x], n - 1)

RECURSIVE SumLenFrom(_)
SumLenFrom(c) == IF c >= NCycles THEN 0 ELSE CycleLen(c) + SumLenFrom(c + 1)

(* ------------------------------ properties ----------------------------- *)
\* C1: for an action that passed both validators and has at least one
\* point, the returned list is the successor function of the cycles,
\* L[p_i] = p_((i+1) mod k), and every index 1..max_support that occurs in
\* no cycle holds itself.
C1_SuccessorMap ==
    (Returned /\ Positions # {}) =>
        /\ \A p \in Positions :
              /\ Point(p[1], p[2]) \in DOMAIN L
              /\ L[Point(p[1], p[2])] = Point(p[1], (p[2] + 1) % CycleLen(p[1]))
        /\ \A j \in 1..MaxOf(Support) :
              j \notin Support => (j \in DOMAIN L /\ L[j] = j)

C1_Witness ==
    /\ Returned
    /\ \E c \in 0..(NCycles - 1) : CycleLen(c) >= 2
    /\ \E j \in 1..MaxOf(Support) : j \notin Support

\* C2: for an action that passed both validators the returned list has
\* length m+1 and holds m in slot 0, m the greatest point of the action
\* (0 when every cycle is empty, the result then being exactly [0]); slot 0
\* holds m during and after the overlay of the cycles.
C2_SentinelAndLength ==
    /\ Returned =>
          /\ DOMAIN L = 0..MaxOf(Support)
          /\ L[0] = MaxOf(Support)
          /\ (Positions = {} => L = [j \in {0} |-> 0])
    /\ (pc = "map_loop" /\ Passed) => L[0] = MaxOf(Support)

C2_Witness ==
    /\ Returned
    /\ MaxOf(Support) >= 3
    /\ Cardinality(Positions) >= 2
    /\ L[0] = MaxOf(Support)

\* C3: _make_map_ never fails on an action that passed both validators: at
\* every iteration of the overlay loop the cycle is not empty, the written
\* index t[i] lies in 1..max_support inside the list of length
\* max_support+1, the read index (i+1) mod len(t) lies in 0..len(t)-1, no
\* exception is raised, and the call returns: until it has returned a step
\* is always possible, and every step of the loop decreases the number of
\* iterations left.
MapStepSafe ==
    (pc = "map_loop" /\ Passed /\ mc < NCycles /\ i < CycleLen(mc)) =>
        /\ CycleLen(mc) > 0
        /\ ListLen(L) = max_support + 1
        /\ Point(mc, i) \in 1..max_support
        /\ (i + 1) % CycleLen(mc) \in 0..(CycleLen(mc) - 1)
MapNoException == Passed => (err = "none" /\ pc # "raised")
MapNotStuck == (pc \in {"map", "map_loop"} /\ Passed) => ENABLED Next
\* loop iterations still to run: the rest of the current cycle, the cycles
\* after it, and one step per cycle left to leave its inner loop
RECURSIVE MapLeftFrom(_)
MapLeftFrom(c) == IF c >= NCycles THEN 0 ELSE CycleLen(c) + 1 + MapLeftFrom(c + 1)
MapLeft == IF mc >= NCycles THEN 0 ELSE MapLeftFrom(mc) - i
MapDecreases ==
    (pc = "map_loop" /\ Passed) =>
        \/ pc' = "done" /\ err' = "none" /\ MapLeft = 0
        \/ pc' = "map_loop" /\ MapLeft' < MapLeft /\ MapLeft' >= 0
C3_MapNeverFails ==
    /\ [](MapStepSafe /\ MapNoException /\ MapNotStuck)
    /\ [][MapDecreases]_vars

C3_Witness ==
    /\ Returned
    /\ err = "none"
    /\ \E c \in 0..(NCycles - 1) : CycleLen(c) = 0
    /\ \E c \in 0..(NCycles - 1) : CycleLen(c) >= 2

\* C4: _verify_tuples_ returns True exactly for a non-empty list whose
\* elements are all tuples (possibly empty) of integers greater than 0, and
\* False for every other value.  An integer is an instance of int or long,
\* which includes bool, Python's subclass of int.
IsPyInteger(v) == v.kind \in {"int", "long", "bool"}
WellFormed(v) ==
    /\ v.kind = "list"
    /\ Len(v.items) >= 1
    /\ \A c \in 1..Len(v.items) :
          /\ v.items[c].kind = "tuple"
          /\ \A n \in 1..Len(v.items[c].items) :
                /\ IsPyInteger(v.items[c].items[n])
                /\ v.items[c].items[n].val >= 1
C4_VerifyTuplesIff ==
    r_verify # "unset" =>
        /\ r_verify \in {"True", "False"}
        /\ (r_verify = "True") <=> WellFormed(action)

C4_Witness ==
    /\ r_verify = "True"
    /\ \E c \in 0..(NCycles - 1) : CycleLen(c) = 0
    /\ \E c \in 0..(NCycles - 1) : CycleLen(c) >= 1

\* C5: on an action that passed _verify_tuples_, _has_unique_points_
\* returns True exactly when no point occurs twice (in one cycle or in
\* two); it returns False at the first point in scan order that repeats an
\* earlier one, and True once the scan is complete.
Repeats(p) == \E q \in Positions : Before(q, p) /\ Point(q[1], q[2]) = Point(p[1], p[2])
C5_UniqueIff ==
    r_unique # "unset" =>
        /\ (r_unique = "True") <=> (\A p \in Positions : ~Repeats(p))
        /\ r_unique = "False" =>
              /\ <<uc, up>> \in Positions
              /\ Repeats(<<uc, up>>)
              /\ \A p \in Positions : Before(p, <<uc, up>>) => ~Repeats(p)
        /\ r_unique = "True" => uc = NCycles

C5_Witness ==
    /\ r_unique = "False"
    /\ uc >= 1
    /\ \A n \in 0..(up - 1) : Point(uc, n) # Point(uc, up)

\* C6: on an action that passed _verify_tuples_, _get_degree_ is the size
\* of the support, the number of distinct points of the action.
C6_DegreeIsSupportSize ==
    r_degree # -1 => r_degree = Cardinality(Support)

C8_IdentityIffFixesAll ==
    Returned =>
        ((r_identity = "True") <=> (\A j \in DOMAIN L \ {0} : L[j] = j))

\* C9: on an action that passed both validators, for every cycle
\* (p_0,...,p_(k-1)) with k >= 1, j applications of the returned list to p_0
\* give p_j for j < k, and k applications give p_0 again.
C9_CycleLaw ==
    Returned =>
        \A c \in 0..(NCycles - 1) :
            CycleLen(c) >= 1 =>
                \A j \in 0..CycleLen(c) :
                    Iter(L, Point(c, 0), j) = Point(c, j % CycleLen(c))

C9_Witness ==
    /\ Returned
    /\ \E c \in 0..(NCycles - 1) :
          CycleLen(c) >= 3 /\ Iter(L, Point(c, 0), 2) = Point(c, 2)

\* C10: on an action that passed both validators and has max support
\* m >= 1, the returned list restricted to 1..m is a bijection of 1..m onto
\* itself.
C10_Bijection ==
    (Returned /\ MaxOf(Support) >= 1) =>
        /\ \A j \in 1..MaxOf(Support) : j \in DOMAIN L /\ L[j] \in 1..MaxOf(Support)
        /\ \A j1, j2 \in 1..MaxOf(Support) :
              (j1 \in DOMAIN L /\ j2 \in DOMAIN L /\ j1 # j2) => L[j1] # L[j2]

C10_Witness ==
    /\ Returned
    /\ MaxOf(Support) >= 3
    /\ Cardinality({c \in 0..(NCycles - 1) : CycleLen(c) >= 1}) >= 2

====
